---- MODULE Spec2Model ----
(***************************************************************************)
(* Model of Dataset.create and Dataset._init_shared_arrs (dataset.py):     *)
(* `size` MPI processes build one dataset.  Rank 0 (root) lists the storm  *)
(* directories and loads the mesh variables; the mesh variables are put in *)
(* shared windows; every rank extracts the storms rank, rank+size, ...;    *)
(* each rank concatenates what it extracted, and the keys are gathered on  *)
(* the root one by one (comm.gather of the lengths, then comm.Gatherv of   *)
(* the data); the root writes the file.                                    *)
(*                                                                         *)
(* An array is a sequence of rows.  A row is the record                    *)
(* [u |-> storm index, j |-> row of that storm's record, k |-> key]: the   *)
(* value the extraction of storm u put in row j of key k.  The rows of     *)
(* info["storm"] = np.full(len(info["inds"]), i) all hold the value i and  *)
(* are [u |-> i, j |-> 0, k |-> "storm"].  The field e of a row is the      *)
(* number of values in it: the size of the array's shape[1:].              *)
(***************************************************************************)
EXTENDS Integers, Sequences, FiniteSets, TLC

\* Bounds of the model.
MaxWorkers == 2     \* comm.Get_size() is in 1..MaxWorkers
MaxUnits == 2       \* len(dirs) is in 0..MaxUnits
MaxRows == 2        \* len(inds) of one storm is 0 (no data), 1 or MaxRows
NumNodes == 2       \* len(mesh_vars["coastal_dist"]); other mesh arrays have 1..NumNodes

root == 0

None == -1

\* What _extract_storm_data returns for a storm without data (`return`).
NoData == [none |-> TRUE]

IsNone(info) == DOMAIN info = {"none"}

\* The keys of a storm's record that the model keeps: the mesh variables
\* (coastal_dist always, bathy when some bathy_stats.hdf5 holds it), "inds",
\* "landfall_location" (one row of two numbers per storm) and "storm".
MeshNames == {"bathy", "coastal_dist"}

\* sorted(): the keys in lexicographic order.
KeyOrder == <<"bathy", "coastal_dist", "inds", "landfall_location", "storm">>

Keys == {KeyOrder[x] : x \in 1..Len(KeyOrder)}

VARIABLES
    size,        \* comm.Get_size()
    eager,       \* the MPI build returns from a gather on a non-root rank
                 \* as soon as the message is handed over (TRUE) or only when
                 \* the root has received it (FALSE)
    pc,          \* pc[r]: where rank r is
    dirs,        \* dirs[r]: None, or len(dirs) (dirs[i] is storm i)
    bcastq,      \* the values the root has broadcast, in order
    root_mesh,   \* the root's local mesh_vars: name -> len(arr)
    num_nodes,   \* num_nodes[r]
    var_names,   \* var_names[r]: None or a sequence of names
    vi,          \* vi[r]: the position of `for v in var_names`
    win,         \* win[r]: the windows rank r has entered Allocate_shared for
    mesh_vars,   \* mesh_vars[r]: self.mesh_vars, name -> shape[0]
    shm_writes,  \* the writes into the shared windows: <<name, rank>>
    barrier,     \* the ranks that have entered comm.Barrier()
    i,           \* i[r]: the position of `for i in range(rank, len(dirs), size)`
    infos,       \* infos[u]: info of storm u: None, or the record with its "storm"
    processed,   \* processed[r]: the storms rank r has extracted, in order
    arrs,        \* arrs[r]: key -> list of fragments
    local_data,  \* local_data[r]: key -> array
    keys,        \* keys[r]: sorted(list(local_data.keys()))
    ki,          \* ki[r]: the position of `for k in keys`
    posted,      \* posted[r]: what rank r has sent in its gathers, in order
    root_slot,   \* the number of gathers the root has completed
    counts,      \* the root's counts
    data,        \* the root's data: key -> array
    outds        \* the files written: a sequence of [by |-> rank, data |-> data]

vars == <<size, eager, pc, dirs, bcastq, root_mesh, num_nodes, var_names, vi,
          win, mesh_vars, shm_writes, barrier, i, infos, processed, arrs,
          local_data, keys, ki, posted, root_slot, counts, data, outds>>

setup_vars == <<root_mesh, num_nodes, var_names, vi, win, mesh_vars,
                shm_writes, barrier>>

map_vars == <<i, infos, processed, arrs>>

gather_vars == <<local_data, keys, ki, posted, root_slot, counts, data, outds>>

Ranks == 0..(size - 1)

Empty == <<>>

--------------------------------------------------------------------------
\* Helpers.

RECURSIVE Concat(_)
\* np.concatenate(v): the fragments of v one after the other.
Concat(v) == IF v = <<>> THEN <<>> ELSE Head(v) \o Concat(Tail(v))

RECURSIVE Sum(_)
\* sum(counts)
Sum(s) == IF s = <<>> THEN 0 ELSE Head(s) + Sum(Tail(s))

\* list(d.keys()) for the key set S, unsorted: the keys in the order in which
\* the record of a storm inserts them (lines 133-139, 236).
SortedMut(S) ==
    SelectSeq(<<"landfall_location", "inds", "coastal_dist", "bathy", "storm">>,
              LAMBDA k : k \in S)

\* sorted(list(d.keys())) for the key set S.
Sorted(S) == SelectSeq(KeyOrder, LAMBDA k : k \in S)

\* range(start, stop, step), step > 0: start, start + step, ... below stop.
RangeMut(start, stop, step) ==
    [x \in 1..((stop - start + step) \div (step + 1)) |-> start + (x - 1) * (step + 1)]

Range(start, stop, step) ==
    [x \in 1..((stop - start + step - 1) \div step) |-> start + (x - 1) * step]

\* The size of shape[1:] of the arrays _extract_storm_data builds itself:
\* landfall_coord.reshape((1,2)) has two values in a row, x[inds] one.
Shape(k) == IF k = "landfall_location" THEN 2 ELSE 1

Row(u, j, k) == [u |-> u, j |-> j, k |-> k, e |-> Shape(k)]

\* recvbuf.size // buf_shape[0], local_shape[1:]: the values in one row of
\* array a.
ElemsPerRow(a) == IF a = <<>> THEN 1 ELSE a[1].e

\* A row of a receive buffer that the gather did not fill with what its
\* shape says: np.empty memory, or numbers of another shape.
Garbage == Row(None, 0, "garbage")

--------------------------------------------------------------------------
\* _extract_storm_data without the return of line 104: a storm with no rows
\* gives a record of arrays with no rows.
ExtractStormDataMut(u, n, local, e, shared) ==
    [k \in {"inds", "landfall_location"} \cup local \cup shared |->
        IF k = "landfall_location" THEN <<Row(u, 1, k)>>
        ELSE IF k \in local THEN [x \in 1..n |-> [Row(u, x, k) EXCEPT !.e = e]]
        ELSE [x \in 1..n |-> Row(u, x, k)]]

\* _extract_storm_data: the record of storm u with n = len(inds) rows, whose
\* directory holds the mesh variables `local`, arrays with e values per node,
\* on a rank whose self.mesh_vars holds the names `shared` (arrays with one
\* value per node; the directory's own array wins, lines 80-83).  None when
\* the storm has no data (n = 0).
ExtractStormData(u, n, local, e, shared) ==
    IF n = 0 THEN NoData
    ELSE [k \in {"inds", "landfall_location"} \cup local \cup shared |->
            IF k = "landfall_location" THEN <<Row(u, 1, k)>>
            ELSE IF k \in local THEN [x \in 1..n |-> [Row(u, x, k) EXCEPT !.e = e]]
            ELSE [x \in 1..n |-> Row(u, x, k)]]

\* np.full(len(info["inds"]), i // size): the position of the storm in the
\* rank's own range instead of its index.
StormMut(info, u) == [x \in 1..Len(info["inds"]) |-> Row(u \div size, 0, "storm")]

\* info["storm"] = np.full(len(info["inds"]), i, dtype=int)
Storm(info, u) == [x \in 1..Len(info["inds"]) |-> Row(u, 0, "storm")]

\* for k, v in info.items(): arrs[k].append(v)
Append_all(a, info) ==
    [k \in DOMAIN a \cup DOMAIN info |->
        IF k \in DOMAIN info
        THEN (IF k \in DOMAIN a THEN a[k] ELSE <<>>) \o <<info[k]>>
        ELSE a[k]]

--------------------------------------------------------------------------
Init ==
    /\ size \in 1..MaxWorkers
    /\ eager \in BOOLEAN
    /\ pc = [r \in Ranks |-> IF r = root THEN "listdirs" ELSE "bcast_dirs"]
    /\ dirs = [r \in Ranks |-> None]
    /\ bcastq = <<>>
    /\ root_mesh = Empty
    /\ num_nodes = [r \in Ranks |-> 0]
    /\ var_names = [r \in Ranks |-> <<>>]
    /\ vi = [r \in Ranks |-> 1]
    /\ win = [r \in Ranks |-> 0]
    /\ mesh_vars = [r \in Ranks |-> Empty]
    /\ shm_writes = <<>>
    /\ barrier = {}
    /\ i = [r \in Ranks |-> 1]
    /\ infos = Empty
    /\ processed = [r \in Ranks |-> <<>>]
    /\ arrs = [r \in Ranks |-> Empty]
    /\ local_data = [r \in Ranks |-> Empty]
    /\ keys = [r \in Ranks |-> <<>>]
    /\ ki = [r \in Ranks |-> 1]
    /\ posted = [r \in Ranks |-> <<>>]
    /\ root_slot = 0
    /\ counts = <<>>
    /\ data = Empty
    /\ outds = <<>>

--------------------------------------------------------------------------
\* create, lines 208-217: the root lists the storm directories.
ListDirs ==
    /\ pc[root] = "listdirs"
    /\ \E n \in 0..MaxUnits : dirs' = [dirs EXCEPT ![root] = n]
    /\ pc' = [pc EXCEPT ![root] = "bcast_dirs"]
    /\ UNCHANGED <<size, eager, bcastq>>
    /\ UNCHANGED <<setup_vars, map_vars, gather_vars>>

\* dirs = comm.bcast(dirs, root=root)
BcastDirs(r) ==
    /\ pc[r] = "bcast_dirs"
    /\ IF r = root
       THEN /\ bcastq' = Append(bcastq, dirs[root])
            /\ dirs' = dirs
       ELSE /\ Len(bcastq) >= 1
            /\ dirs' = [dirs EXCEPT ![r] = bcastq[1]]
            /\ bcastq' = bcastq
    /\ pc' = [pc EXCEPT ![r] = "load"]
    /\ UNCHANGED <<size, eager>>
    /\ UNCHANGED <<setup_vars, map_vars, gather_vars>>

\* The mesh variables _get_mesh_vars(datadir) loads: coastal_dist with
\* NumNodes values and, when b > 0, bathy with b values.
GetMeshVars(b) ==
    [k \in (IF b > 0 THEN MeshNames ELSE {"coastal_dist"}) |->
        IF k = "coastal_dist" THEN NumNodes ELSE b]

\* list(mesh_vars.keys()): coastal_dist is loaded first.
VarNames(m) == SelectSeq(<<"coastal_dist", "bathy">>, LAMBDA k : k \in DOMAIN m)

\* if len(arr) != num_nodes: raise ValueError
InconsistentMut(m, n) == FALSE

Inconsistent(m, n) == \E k \in DOMAIN m : m[k] # n

\* _init_shared_arrs, lines 171-181.
Load(r) ==
    /\ pc[r] = "load"
    /\ IF r = root
       THEN \E b \in 0..NumNodes :
              LET m == GetMeshVars(b)
                  n == m["coastal_dist"]
              IN /\ root_mesh' = m
                 /\ num_nodes' = [num_nodes EXCEPT ![r] = n]
                 /\ IF Inconsistent(m, n)
                    THEN /\ pc' = [pc EXCEPT ![r] = "error"]
                         /\ var_names' = var_names
                    ELSE /\ pc' = [pc EXCEPT ![r] = "bcast_nn"]
                         /\ var_names' = [var_names EXCEPT ![r] = VarNames(m)]
       ELSE /\ num_nodes' = [num_nodes EXCEPT ![r] = 0]
            /\ var_names' = [var_names EXCEPT ![r] = None]
            /\ pc' = [pc EXCEPT ![r] = "bcast_nn"]
            /\ root_mesh' = root_mesh
    /\ UNCHANGED <<size, eager, dirs, bcastq, vi, win, mesh_vars, shm_writes, barrier>>
    /\ UNCHANGED <<map_vars, gather_vars>>

\* num_nodes = comm.bcast(num_nodes, root=root)
BcastNumNodes(r) ==
    /\ pc[r] = "bcast_nn"
    /\ IF r = root
       THEN /\ bcastq' = Append(bcastq, num_nodes[root])
            /\ num_nodes' = num_nodes
       ELSE /\ Len(bcastq) >= 2
            /\ num_nodes' = [num_nodes EXCEPT ![r] = bcastq[2]]
            /\ bcastq' = bcastq
    /\ pc' = [pc EXCEPT ![r] = "bcast_vn"]
    /\ UNCHANGED <<size, eager, dirs, root_mesh, var_names, vi, win, mesh_vars,
                   shm_writes, barrier>>
    /\ UNCHANGED <<map_vars, gather_vars>>

\* var_names = comm.bcast(var_names, root=root); self.mesh_vars = {}
BcastVarNames(r) ==
    /\ pc[r] = "bcast_vn"
    /\ IF r = root
       THEN /\ bcastq' = Append(bcastq, var_names[root])
            /\ var_names' = var_names
       ELSE /\ Len(bcastq) >= 3
            /\ var_names' = [var_names EXCEPT ![r] = bcastq[3]]
            /\ bcastq' = bcastq
    /\ pc' = [pc EXCEPT ![r] = "alloc"]
    /\ UNCHANGED <<size, eager, dirs, root_mesh, num_nodes, vi, win, mesh_vars,
                   shm_writes, barrier>>
    /\ UNCHANGED <<map_vars, gather_vars>>

\* for v in var_names: win = MPI.Win.Allocate_shared(...): the rank enters
\* the collective allocation; after the loop it enters comm.Barrier().
AllocEnter(r) ==
    /\ pc[r] = "alloc"
    /\ IF vi[r] <= Len(var_names[r])
       THEN /\ win' = [win EXCEPT ![r] = @ + 1]
            /\ pc' = [pc EXCEPT ![r] = "alloc_wait"]
            /\ barrier' = barrier
       ELSE /\ barrier' = barrier \cup {r}
            /\ pc' = [pc EXCEPT ![r] = "barrier"]
            /\ win' = win
    /\ UNCHANGED <<size, eager, dirs, bcastq, root_mesh, num_nodes, var_names, vi,
                   mesh_vars, shm_writes>>
    /\ UNCHANGED <<map_vars, gather_vars>>

\* if rank == 0: arr[:] = mesh_vars[v]
Writes(r, v) == IF r = 0 THEN <<<<v, r>>>> ELSE <<>>

\* Allocate_shared returns once every rank has entered it; lines 188-191.
Alloc(r) ==
    /\ pc[r] = "alloc_wait"
    /\ \A q \in Ranks : win[q] >= win[r]
    /\ LET v == var_names[r][vi[r]]
       IN /\ mesh_vars' = [mesh_vars EXCEPT ![r] =
                              [k \in DOMAIN @ \cup {v} |-> num_nodes[r]]]
          /\ shm_writes' = shm_writes \o Writes(r, v)
    /\ vi' = [vi EXCEPT ![r] = @ + 1]
    /\ pc' = [pc EXCEPT ![r] = "alloc"]
    /\ UNCHANGED <<size, eager, dirs, bcastq, root_mesh, num_nodes, var_names, win,
                   barrier>>
    /\ UNCHANGED <<map_vars, gather_vars>>

\* comm.Barrier() returns once every rank has entered it.
BarrierMut(r) == TRUE

BarrierOpen(r) == barrier = Ranks

Barrier(r) ==
    /\ pc[r] = "barrier"
    /\ BarrierOpen(r)
    /\ pc' = [pc EXCEPT ![r] = "map"]
    /\ UNCHANGED <<size, eager, dirs, bcastq>>
    /\ UNCHANGED <<setup_vars, map_vars, gather_vars>>

--------------------------------------------------------------------------
\* The mesh variables _get_mesh_vars(dirname) can find in a storm directory
\* beside those of self.mesh_vars (which always holds coastal_dist).
LocalMeshVars == SUBSET (MeshNames \ {"coastal_dist"})

\* The values per node of a mesh variable of a storm directory
\* (bathy_ds[k][:] has the shape the file gives it).
LocalShapes == {1, 2}

\* create, lines 231-238: one pass of the loop over the rank's storms.  The
\* storm has n = len(inds) rows (0: _extract_storm_data returns None) and its
\* directory holds the mesh variables `local`, with e values per node (more
\* than one only for a storm of one row, to keep the inputs few).
TheRange(r) == Range(r, dirs[r], size)

\* create, lines 233-237: None is skipped; a record gets its "storm" column
\* and is appended to the lists of arrs.
Tag(info, u) == IF IsNone(info) THEN info ELSE ("storm" :> Storm(info, u)) @@ info

AccumulateMut(a, info, u) ==
    Append_all(a, IF IsNone(info) THEN ("storm" :> <<Row(u, 0, "storm")>>) ELSE info)

Accumulate(a, info, u) == IF IsNone(info) THEN a ELSE Append_all(a, info)

Extract(r) ==
    /\ pc[r] = "map"
    /\ i[r] <= Len(TheRange(r))
    /\ \E n \in {0, 1, MaxRows}, local \in LocalMeshVars :
       \E e \in (IF n = 1 /\ local # {} THEN LocalShapes ELSE {1}) :
         LET u == TheRange(r)[i[r]]
             info == Tag(ExtractStormData(u, n, local, e, DOMAIN mesh_vars[r]), u)
         IN /\ infos' = (u :> info) @@ infos
            /\ processed' = [processed EXCEPT ![r] = Append(@, u)]
            /\ arrs' = [arrs EXCEPT ![r] = Accumulate(@, info, u)]
    /\ i' = [i EXCEPT ![r] = @ + 1]
    /\ UNCHANGED <<size, eager, pc, dirs, bcastq>>
    /\ UNCHANGED <<setup_vars, gather_vars>>

\* create, line 232: _extract_storm_data raises (a file of the storm is
\* missing or unreadable).  Nothing catches the exception: the rank leaves
\* create with it.
ExtractRaises(r) ==
    /\ pc[r] = "map"
    /\ i[r] <= Len(TheRange(r))
    /\ pc' = [pc EXCEPT ![r] = "raised"]
    /\ UNCHANGED <<size, eager, dirs, bcastq>>
    /\ UNCHANGED <<setup_vars, map_vars, gather_vars>>

\* if rank != root: return
ReturnsMut(r) == FALSE

Returns(r) == r # root

\* Where a rank goes when `for k in keys` is over.
AfterLoop(r) == IF Returns(r) THEN "done" ELSE "write"

\* np.concatenate(v) raises ValueError when the arrays of v differ in
\* shape[1:].
ShapesDiffer(v) == \E f, g \in DOMAIN v : ElemsPerRow(v[f]) # ElemsPerRow(v[g])

\* create, lines 242-244: np.concatenate raises; the rank leaves create.
ConsolidateRaises(r) ==
    /\ pc[r] = "map"
    /\ i[r] > Len(TheRange(r))
    /\ \E k \in DOMAIN arrs[r] : ShapesDiffer(arrs[r][k])
    /\ pc' = [pc EXCEPT ![r] = "raised"]
    /\ UNCHANGED <<size, eager, dirs, bcastq>>
    /\ UNCHANGED <<setup_vars, map_vars, gather_vars>>

\* create, lines 241-251: local_data, del arrs, keys.
Consolidate(r) ==
    /\ pc[r] = "map"
    /\ i[r] > Len(TheRange(r))
    /\ \A k \in DOMAIN arrs[r] : ~ShapesDiffer(arrs[r][k])
    /\ local_data' = [local_data EXCEPT ![r] =
                         [k \in DOMAIN arrs[r] |-> Concat(arrs[r][k])]]
    /\ arrs' = [arrs EXCEPT ![r] = Empty]
    /\ keys' = [keys EXCEPT ![r] = Sorted(DOMAIN arrs[r])]
    /\ ki' = [ki EXCEPT ![r] = 1]
    /\ pc' = [pc EXCEPT ![r] = IF DOMAIN arrs[r] = {} THEN AfterLoop(r)
                                ELSE "gather_len"]
    /\ UNCHANGED <<size, eager, dirs, bcastq, i, infos, processed>>
    /\ UNCHANGED <<posted, root_slot, counts, data, outds>>
    /\ UNCHANGED setup_vars

\* No del: the array of the key stays in local_data.
DelMut(d, k) == d

\* del local_data[k]
Del(d, k) == [x \in DOMAIN d \ {k} |-> d[x]]

\* The gather a non-root rank is in has returned: the message is handed
\* over (an eager build), or the root has received it.
Returned(r) == eager \/ root_slot >= Len(posted[r])

\* comm.gather(local_data[k].size, root): the number of values, not of rows.
LenMessageMut(d, k) == [key |-> k, n |-> Len(d[k]) * ElemsPerRow(d[k])]

\* What a non-root rank sends in comm.gather(len(local_data[k]), root).
LenMessage(d, k) == [key |-> k, n |-> Len(d[k])]

\* What a non-root rank sends in comm.Gatherv(sendbuf=local_data[k].flatten(), ...).
DataMessage(d, k) == [key |-> k, rows |-> d[k], elems |-> ElemsPerRow(d[k])]

\* The first pass of `for k in keys` on a non-root rank enters comm.gather.
Gather(r) ==
    /\ r # root
    /\ pc[r] = "gather_len"
    /\ posted' = [posted EXCEPT ![r] =
                     Append(@, LenMessage(local_data[r], keys[r][ki[r]]))]
    /\ pc' = [pc EXCEPT ![r] = "in_gather"]
    /\ UNCHANGED <<size, eager, dirs, bcastq>>
    /\ UNCHANGED <<local_data, keys, ki, root_slot, counts, data, outds>>
    /\ UNCHANGED <<setup_vars, map_vars>>

\* comm.gather returns on a non-root rank (flatcounts = recvbuf = None) and
\* the rank enters comm.Gatherv.
Gatherv(r) ==
    /\ r # root
    /\ pc[r] = "in_gather"
    /\ Returned(r)
    /\ posted' = [posted EXCEPT ![r] =
                     Append(@, DataMessage(local_data[r], keys[r][ki[r]]))]
    /\ pc' = [pc EXCEPT ![r] = "in_gatherv"]
    /\ UNCHANGED <<size, eager, dirs, bcastq>>
    /\ UNCHANGED <<local_data, keys, ki, root_slot, counts, data, outds>>
    /\ UNCHANGED <<setup_vars, map_vars>>

\* comm.Gatherv returns on a non-root rank; del local_data[k]; the rank
\* enters comm.gather for the next key, or leaves the loop.
NextKey(r) ==
    /\ r # root
    /\ pc[r] = "in_gatherv"
    /\ Returned(r)
    /\ local_data' = [local_data EXCEPT ![r] = Del(@, keys[r][ki[r]])]
    /\ ki' = [ki EXCEPT ![r] = @ + 1]
    /\ IF ki[r] < Len(keys[r])
       THEN /\ posted' = [posted EXCEPT ![r] =
                            Append(@, LenMessage(local_data[r], keys[r][ki[r] + 1]))]
            /\ pc' = [pc EXCEPT ![r] = "in_gather"]
       ELSE /\ posted' = posted
            /\ pc' = [pc EXCEPT ![r] = AfterLoop(r)]
    /\ UNCHANGED <<size, eager, dirs, bcastq>>
    /\ UNCHANGED <<keys, root_slot, counts, data, outds>>
    /\ UNCHANGED <<setup_vars, map_vars>>

\* counts = np.array(comm.gather(len(local_data[k]), root)) on the root: the
\* call returns when every rank has sent the message of its gather number
\* root_slot + 1; counts[q + 1] is what rank q sent.
RootGatherLen ==
    /\ pc[root] = "gather_len"
    /\ \A q \in Ranks \ {root} : Len(posted[q]) > root_slot
    /\ LET k == keys[root][ki[root]]
       IN counts' = [x \in 1..size |->
                        IF x - 1 = root THEN Len(local_data[root][k])
                        ELSE posted[x - 1][root_slot + 1].n]
    /\ root_slot' = root_slot + 1
    /\ pc' = [pc EXCEPT ![root] = "gatherv"]
    /\ UNCHANGED <<size, eager, dirs, bcastq>>
    /\ UNCHANGED <<local_data, keys, ki, posted, data, outds>>
    /\ UNCHANGED <<setup_vars, map_vars>>

\* flatcounts[q]: the numbers the root receives from rank q for key k.
Flatcount(k, q) == ElemsPerRow(local_data[root][k]) * counts[q + 1]

\* The numbers rank q sent in message m.
Sent(m) == m.elems * Len(m.rows)

\* The rows of the receive buffer that belong to rank q, for the root's key
\* k, when rank q sent message m: q's rows in the order it holds them.  When
\* q sent another number of values than flatcounts[q], the rows are not rows
\* of any record.
Segment(k, q, m) == IF Sent(m) = Flatcount(k, q) THEN m.rows
                    ELSE [x \in 1..counts[q + 1] |-> Garbage]

\* The message of rank q in the Gatherv the root is in.
MessageOf(k, q) ==
    IF q = root
    THEN DataMessage(local_data[root], k)
    ELSE posted[q][root_slot + 1]

\* The ranks' segments in decreasing rank order.
RecvbufMut(k) ==
    Concat([x \in 1..size |-> Segment(k, size - x, MessageOf(k, size - x))])

\* recvbuf after the Gatherv: the ranks' segments in rank order.
Recvbuf(k) == Concat([x \in 1..size |-> Segment(k, x - 1, MessageOf(k, x - 1))])

\* comm.Gatherv on the root, lines 265-270: data[k] = recvbuf.reshape(...),
\* del local_data[k].  A rank that sent another number of values than
\* flatcounts says makes the call erroneous.  More values than the root has
\* room for: the message is truncated and the call raises on the root.
\* Fewer values: the call raises on the root, or it returns and leaves the
\* rest of the segment unfilled.
RootGatherv ==
    /\ pc[root] = "gatherv"
    /\ \A q \in Ranks \ {root} : Len(posted[q]) > root_slot
    /\ LET k == keys[root][ki[root]]
           bad == \E q \in Ranks : Sent(MessageOf(k, q)) # Flatcount(k, q)
           over == \E q \in Ranks : Sent(MessageOf(k, q)) > Flatcount(k, q)
       IN \/ /\ ~over
             /\ data' = (k :> Recvbuf(k)) @@ data
             /\ local_data' = [local_data EXCEPT ![root] = Del(@, k)]
             /\ ki' = [ki EXCEPT ![root] = @ + 1]
             /\ root_slot' = root_slot + 1
             /\ pc' = [pc EXCEPT ![root] = IF ki[root] < Len(keys[root])
                                           THEN "gather_len" ELSE AfterLoop(root)]
          \/ /\ bad
             /\ pc' = [pc EXCEPT ![root] = "mpi_error"]
             /\ UNCHANGED <<data, local_data, ki, root_slot>>
    /\ UNCHANGED <<size, eager, dirs, bcastq>>
    /\ UNCHANGED <<keys, posted, counts, outds>>
    /\ UNCHANGED <<setup_vars, map_vars>>

\* create, lines 273-279: the file is written.
Write(r) ==
    /\ pc[r] = "write"
    /\ outds' = Append(outds, [by |-> r, data |-> data])
    /\ pc' = [pc EXCEPT ![r] = "done"]
    /\ UNCHANGED <<size, eager, dirs, bcastq>>
    /\ UNCHANGED <<local_data, keys, ki, posted, root_slot, counts, data>>
    /\ UNCHANGED <<setup_vars, map_vars>>

--------------------------------------------------------------------------
\* Where the ranks are.

PastBarrier(r) == pc[r] \in {"map", "gather_len", "in_gather", "in_gatherv",
                             "gatherv", "write", "done", "mpi_error", "raised"}

PastMap(r) == PastBarrier(r) /\ pc[r] \notin {"map", "raised"}

LoopOver(r) == pc[r] \in {"write", "done"}

\* The elements of a sequence.
Elems(s) == {s[x] : x \in DOMAIN s}

\* How often e is in s.
Count(s, e) == Cardinality({x \in DOMAIN s : s[x] = e})

\* The storms that returned a record.
WithData == {u \in DOMAIN infos : ~IsNone(infos[u])}

\* The storms whose record holds key k.
Holding(k) == {u \in WithData : k \in DOMAIN infos[u]}

RECURSIVE SumRows(_, _)
\* The rows of key k in the records of the storms of U.
SumRows(U, k) == IF U = {} THEN 0
                 ELSE LET u == CHOOSE x \in U : TRUE
                      IN Len(infos[u][k]) + SumRows(U \ {u}, k)

Next ==
    \/ ListDirs
    \/ \E r \in Ranks : BcastDirs(r)
    \/ \E r \in Ranks : Load(r)
    \/ \E r \in Ranks : BcastNumNodes(r)
    \/ \E r \in Ranks : BcastVarNames(r)
    \/ \E r \in Ranks : AllocEnter(r)
    \/ \E r \in Ranks : Alloc(r)
    \/ \E r \in Ranks : Barrier(r)
    \/ \E r \in Ranks : Extract(r)
    \/ \E r \in Ranks : ExtractRaises(r)
    \/ \E r \in Ranks : ConsolidateRaises(r)
    \/ \E r \in Ranks : Consolidate(r)
    \/ \E r \in Ranks : Gather(r)
    \/ \E r \in Ranks : Gatherv(r)
    \/ \E r \in Ranks : NextKey(r)
    \/ RootGatherLen
    \/ RootGatherv
    \/ \E r \in Ranks : Write(r)

Spec == Init /\ [][Next]_vars

--------------------------------------------------------------------------
\* C1: the round-robin assignment range(rank, N, size) gives every storm
\* index in 0..N-1 to exactly one rank, exactly once: the ranges of the ranks
\* hold only indices below N, no index twice, and every index is in the range
\* of exactly one rank; accordingly no storm is extracted twice, and when all
\* ranks have left the extraction loop every storm has been extracted once.
C1_RoundRobinCover ==
    /\ dirs[root] # None =>
         /\ \A r \in Ranks :
              LET rg == Range(r, dirs[root], size)
              IN \A x \in DOMAIN rg :
                    /\ rg[x] \in 0..(dirs[root] - 1)
                    /\ rg[x] = r + (x - 1) * size
                    /\ Count(rg, rg[x]) = 1
         /\ \A u \in 0..(dirs[root] - 1) :
              Cardinality({r \in Ranks : u \in Elems(Range(r, dirs[root], size))}) = 1
    /\ \A r, q \in Ranks :
         \A x \in DOMAIN processed[r], y \in DOMAIN processed[q] :
            processed[r][x] = processed[q][y] => (r = q /\ x = y)
    /\ (\A r \in Ranks : PastMap(r)) =>
         \A u \in 0..(dirs[root] - 1) :
            Cardinality({r \in Ranks : u \in Elems(processed[r])}) = 1

\* Two ranks have extracted all their storms, one storm each.
C1_Witness ==
    /\ size = 2
    /\ dirs[root] = 2
    /\ \A r \in Ranks : PastMap(r)
    /\ processed[0] = <<0>>
    /\ processed[1] = <<1>>

\* C2: in the gather phase every rank issues the same sequence of gathers
\* for the same keys in the same order: two ranks that have left the
\* extraction loop loop over the same keys (a rank without rows for a key
\* still holds an array of length 0 for it), and the messages two ranks sent
\* at the same position are for the same key.
C2_SameCollectives ==
    \A r, q \in Ranks :
        (PastMap(r) /\ PastMap(q)) =>
            /\ keys[r] = keys[q]
            /\ \A x \in DOMAIN posted[r] \cap DOMAIN posted[q] :
                  posted[r][x].key = posted[q][x].key

\* The mesh arrays the root loaded have one length.
Consistent == \A k \in DOMAIN root_mesh : root_mesh[k] = root_mesh["coastal_dist"]

\* Every rank has returned from create, and the root has written the file.
Completed ==
    /\ \A r \in Ranks : pc[r] = "done"
    /\ Len(outds) = 1
    /\ outds[1].by = root

\* No rank has left create with an exception of the extraction loop.
NothingRaised == \A r \in Ranks : pc[r] # "raised"

\* C3: with consistent reference arrays a run of create terminates: as long
\* as the run is not completed (every rank returned, the root having written
\* the file), some rank can take a step; no rank is blocked for ever in a
\* broadcast, a barrier or a gather.
C3_Terminates == (Consistent /\ NothingRaised) => (Completed \/ ENABLED Next)

\* C4: every key that is in the record of at least one storm is in the
\* root's data when the root has left the gather loop, and its array has as
\* many rows as the records holding the key have together.
C4_RowCounts ==
    (LoopOver(root) /\ \A r \in Ranks : PastMap(r)) =>
        \A k \in Keys :
            Holding(k) # {} =>
                /\ k \in DOMAIN data
                /\ Len(data[k]) = SumRows(Holding(k), k)

\* The rows of the root's array of key k that storm u produced.
Positions(k, u) == {p \in DOMAIN data[k] : data[k][p].u = u}

\* C5: row alignment.  When the root has left the gather loop, the rows of
\* one storm are at the same positions in the arrays of any two keys its
\* record holds, and for every row p of every other key storm[p] is the
\* index of the storm that produced the row.
C5_RowAlignment ==
    LoopOver(root) =>
        /\ \A k1, k2 \in DOMAIN data :
              \A u \in Holding(k1) \cap Holding(k2) :
                  Positions(k1, u) = Positions(k2, u)
        /\ "storm" \in DOMAIN data =>
              \A k \in DOMAIN data :
                  \A p \in DOMAIN data[k] :
                      /\ p \in DOMAIN data["storm"]
                      /\ data["storm"][p].k = "storm"
                      /\ data["storm"][p].u = data[k][p].u

\* The array of key k that rank r holds after the extraction loop: the
\* fragments of its storms in increasing storm index.
LocalArray(r, k) ==
    LET mine == SelectSeq([x \in 1..dirs[root] |-> x - 1],
                          LAMBDA u : u % size = r /\ u \in Holding(k))
    IN Concat([x \in DOMAIN mine |-> infos[mine[x]][k]])

\* C6: the root's array of a gathered key is the concatenation of the
\* ranks' local arrays of that key in increasing rank order, the fragments
\* of one rank in increasing storm index.
C6_RankMajor ==
    \A k \in DOMAIN data :
        data[k] = Concat([x \in 1..size |-> LocalArray(x - 1, k)])

\* The storms that returned None.
WithoutData == {u \in DOMAIN infos : IsNone(infos[u])}

\* No row that rank r holds or has sent, and no row of the root's data,
\* carries the index of storm u.
NoRowOf(u) ==
    /\ \A r \in Ranks :
          /\ \A k \in DOMAIN arrs[r] :
                \A f \in DOMAIN arrs[r][k] :
                    \A x \in DOMAIN arrs[r][k][f] : arrs[r][k][f][x].u # u
          /\ \A k \in DOMAIN local_data[r] :
                \A x \in DOMAIN local_data[r][k] : local_data[r][k][x].u # u
          /\ \A m \in DOMAIN posted[r] :
                m % 2 = 0 =>
                    \A x \in DOMAIN posted[r][m].rows : posted[r][m].rows[x].u # u
    /\ \A k \in DOMAIN data :
          \A x \in DOMAIN data[k] : data[k][x].u # u

\* C7: a storm whose extraction returns None is zero contribution and no
\* error: no list of arrs gets a fragment for it (a list has one fragment per
\* extracted storm whose record holds the key), no row carries its index on
\* any rank or in the root's data (the "storm" array included), and its rank
\* goes on to extract all the storms assigned to it.
C7_NoneContributesNothing ==
    /\ \A u \in WithoutData : NoRowOf(u)
    /\ \A r \in Ranks :
          pc[r] = "map" =>
              \A k \in Keys :
                  (IF k \in DOMAIN arrs[r] THEN Len(arrs[r][k]) ELSE 0)
                      = Cardinality(Elems(processed[r]) \cap Holding(k))
    /\ \A r \in Ranks :
          PastMap(r) =>
              /\ processed[r] = [x \in 1..Len(processed[r]) |-> r + (x - 1) * size]
              /\ r + Len(processed[r]) * size >= dirs[r]

\* A rank extracted a storm that returned None, then one that returned a
\* record, and the root has gathered the "storm" array and written the file.
C7_Witness ==
    /\ pc[root] = "done"
    /\ "storm" \in DOMAIN data
    /\ \E r \in Ranks :
          \E x \in DOMAIN processed[r] :
              /\ x + 1 \in DOMAIN processed[r]
              /\ processed[r][x] \in WithoutData
              /\ processed[r][x + 1] \in WithData

\* C8: the file is written at most once, by the root and by no other rank;
\* it has been written exactly once when the root has returned; and it is
\* written only after the root has gathered every key of its gather loop:
\* the file holds the root's data, which has an array for every key of keys.
C8_WriteOnce ==
    /\ Len(outds) <= 1
    /\ \A x \in DOMAIN outds : outds[x].by = root
    /\ \A r \in Ranks \ {root} : pc[r] # "write"
    /\ (pc[root] = "done") <=> (Len(outds) = 1)
    /\ \A r \in Ranks : (r # root /\ pc[r] = "done") => ki[r] = Len(keys[r]) + 1
    /\ (pc[root] = "write" \/ Len(outds) = 1) =>
          /\ ki[root] = Len(keys[root]) + 1
          /\ DOMAIN data = Elems(keys[root])
          /\ root_slot = 2 * Len(keys[root])
          /\ local_data[root] = Empty
    /\ \A x \in DOMAIN outds : outds[x].data = data

\* Two ranks have returned, the root having gathered keys and written.
C8_Witness ==
    /\ size = 2
    /\ \A r \in Ranks : pc[r] = "done"
    /\ Len(outds) = 1
    /\ "storm" \in DOMAIN outds[1].data
    /\ Len(outds[1].data["storm"]) >= 2

\* The names of the shared arrays that have been written.
Written == {shm_writes[x][1] : x \in DOMAIN shm_writes}

\* C9: single writer, barrier before read.  Only the root writes into the
\* shared arrays, each at most once; and once any rank has passed the barrier
\* (and so may extract a storm and read the arrays) every rank has allocated
\* every array and the root has written each array exactly once: no write
\* is left to happen after the barrier.
C9_SingleWriterBarrier ==
    /\ \A x \in DOMAIN shm_writes : shm_writes[x][2] = root
    /\ \A x, y \in DOMAIN shm_writes :
          shm_writes[x][1] = shm_writes[y][1] => x = y
    /\ \A r \in Ranks :
          (PastBarrier(r) \/ processed[r] # <<>>) =>
              /\ Written = DOMAIN root_mesh
              /\ Len(shm_writes) = Cardinality(DOMAIN root_mesh)
              /\ Elems(bcastq[3]) = DOMAIN root_mesh
              /\ \A q \in Ranks : DOMAIN mesh_vars[q] = DOMAIN root_mesh

\* A non-root rank has extracted a storm; two shared arrays were written.
C9_Witness ==
    /\ size = 2
    /\ processed[1] # <<>>
    /\ Len(shm_writes) = 2
    /\ pc[root] = "map"

\* C10: when a reference array the root loaded has another length than
\* num_nodes, _init_shared_arrs raises on the root in the setup: the root
\* is stopped by the error, num_nodes and var_names are never broadcast, no
\* rank has entered the allocation of a shared window or holds one, and no
\* rank has extracted a storm.
C10_InconsistentFailsEarly ==
    (\E k \in DOMAIN root_mesh : root_mesh[k] # num_nodes[root]) =>
        /\ pc[root] = "error"
        /\ Len(bcastq) <= 1
        /\ \A r \in Ranks :
              /\ win[r] = 0
              /\ mesh_vars[r] = Empty
              /\ processed[r] = <<>>
              /\ ~PastBarrier(r)
        /\ shm_writes = <<>>

\* The root has raised on a bathy array shorter than coastal_dist, while
\* another rank waits for the broadcast of num_nodes.
C10_Witness ==
    /\ size = 2
    /\ pc[root] = "error"
    /\ "bathy" \in DOMAIN root_mesh
    /\ root_mesh["bathy"] < root_mesh["coastal_dist"]
    /\ pc[1] = "bcast_nn"

\* A rank that left create with an exception of its own code: the ValueError
\* of _init_shared_arrs on the root, or an exception of the map phase.
Fatal(r) == pc[r] \in {"error", "raised"}

\* A rank that is out of create, by a return or by an exception.
Terminated(r) == pc[r] \in {"done", "error", "raised", "mpi_error"}

\* C11: once a rank has stopped with a fatal error every other rank comes to
\* an end too: no run stops in a state where one rank has raised and another
\* rank is still inside create, blocked in a broadcast, a window allocation,
\* a barrier or a gather that can never complete.
C11_FatalEndsJob ==
    (\E r \in Ranks : Fatal(r)) =>
        ((\A q \in Ranks : Terminated(q)) \/ ENABLED Next)

\* C12: the root never stores a global array for a key whose local arrays
\* differ in shape[1:] between ranks: whenever data holds key k, every rank
\* that sent its local array of k to the Gatherv of k sent rows of the shape
\* of the root's rows.
C12_ShapeMismatchAborts ==
    \A j \in DOMAIN keys[root] :
        LET k == keys[root][j]
        IN k \in DOMAIN data =>
            \A q \in Ranks \ {root} :
                (2 * j \in DOMAIN posted[q] /\ posted[q][2 * j].key = k) =>
                    posted[q][2 * j].elems = ElemsPerRow(data[k])

\* The storms of rank r's range that come after the one the loop is at.
Remaining(r) == {TheRange(r)[x] : x \in (i[r] + 1)..Len(TheRange(r))}

\* Rank r left create with the exception of an extraction (line 232).
ExtractionRaised(r) == pc[r] = "raised" /\ i[r] <= Len(TheRange(r))

\* C13: an extraction that raises does not end the rank's loop: a rank never
\* leaves create with the exception of an extraction while later storms of
\* its range are left unextracted or the fragments it has accumulated are
\* left ungathered.
C13_ExtractionErrorsIsolated ==
    \A r \in Ranks :
        ExtractionRaised(r) => (Remaining(r) = {} /\ arrs[r] = Empty)

\* The code points of the characters of each key: Python orders strings by
\* them, character by character.
Chars ==
    [bathy |-> <<98, 97, 116, 104, 121>>,
     coastal_dist |-> <<99, 111, 97, 115, 116, 97, 108, 95, 100, 105, 115, 116>>,
     inds |-> <<105, 110, 100, 115>>,
     landfall_location |-> <<108, 97, 110, 100, 102, 97, 108, 108, 95,
                             108, 111, 99, 97, 116, 105, 111, 110>>,
     storm |-> <<115, 116, 111, 114, 109>>]

RECURSIVE LexLess(_, _)
\* a < b for two strings given by their code points.
LexLess(a, b) ==
    IF b = <<>> THEN FALSE
    ELSE IF a = <<>> THEN TRUE
    ELSE IF Head(a) # Head(b) THEN Head(a) < Head(b)
    ELSE LexLess(Tail(a), Tail(b))

\* The keys of the messages rank r has posted, one entry per collective.
PostedKeys(r) == [x \in DOMAIN posted[r] |-> posted[r][x].key]

\* C14: on every rank the keys are gathered in strictly increasing
\* lexicographic order: the key list of the rank is strictly increasing, and
\* the collectives the rank has issued are those of its keys in that order,
\* the length exchange and the Gatherv of one key before those of the next.
C14_KeysInIncreasingOrder ==
    \A r \in Ranks :
        /\ \A x, y \in DOMAIN keys[r] :
               x < y => LexLess(Chars[keys[r][x]], Chars[keys[r][y]])
        /\ \A x \in DOMAIN posted[r] :
               /\ (x + 1) \div 2 \in DOMAIN keys[r]
               /\ PostedKeys(r)[x] = keys[r][(x + 1) \div 2]
        /\ r = root =>
               \A x \in DOMAIN keys[root] :
                   keys[root][x] \in DOMAIN data => x <= ki[root]

\* A rank other than the root has gathered all of five keys, in order.
C14_Witness ==
    /\ size = 2
    /\ pc[1] = "done"
    /\ Len(keys[1]) = 5
    /\ Len(posted[1]) = 10

\* The arrays of dataset d (the root's data, or a written file) all have at
\* least one row, and each of its keys is in the record of some storm.
NoEmptyEntry(d) ==
    \A k \in DOMAIN d : Len(d[k]) >= 1 /\ Holding(k) # {}

\* C15: the consolidated dataset has no entry with an empty array.  A key
\* that no storm produced is not in data; every array a rank holds, every
\* array the root stores and every array it writes has at least one row; and
\* the root never comes to a Gatherv for which all ranks reported zero rows.
C15_NoEmptyEntry ==
    /\ NoEmptyEntry(data)
    /\ \A x \in DOMAIN outds : NoEmptyEntry(outds[x].data)
    /\ \A r \in Ranks : \A k \in DOMAIN local_data[r] : Len(local_data[r][k]) >= 1
    /\ pc[root] = "gatherv" => Sum(counts) >= 1

\* The root has written a dataset for two storms, one without rows, and no
\* storm produced "bathy".
C15_Witness ==
    /\ pc[root] = "done"
    /\ Len(outds) = 1
    /\ "inds" \in DOMAIN outds[1].data
    /\ "bathy" \notin DOMAIN outds[1].data
    /\ WithoutData # {}
    /\ WithData # {}

OneOfEachPerKey(r) ==
    \A x \in DOMAIN posted[r] :
        /\ (x + 1) \div 2 \in DOMAIN keys[r]
        /\ posted[r][x].key = keys[r][(x + 1) \div 2]
        /\ DOMAIN posted[r][x] =
               IF x % 2 = 1 THEN {"key", "n"} ELSE {"key", "rows", "elems"}

KeysFrom(r, x) == {keys[r][y] : y \in x..Len(keys[r])}

\* Rank r is in the gather loop.
InGatherLoop(r) == pc[r] \in {"gather_len", "in_gather", "in_gatherv", "gatherv"}

\* C17: each rank releases its local array of a key right after the Gatherv
\* of that key.  In the gather loop local_data holds exactly the keys not yet
\* gathered (those from the loop's position on); arrs was released before the
\* first gather; and local_data is empty when the loop is over.
C17_ReleasedAfterGather ==
    \A r \in Ranks :
        /\ InGatherLoop(r) =>
               /\ DOMAIN local_data[r] = KeysFrom(r, ki[r])
               /\ Cardinality(DOMAIN local_data[r]) = Len(keys[r]) - ki[r] + 1
        /\ (InGatherLoop(r) \/ LoopOver(r)) => arrs[r] = Empty
        /\ LoopOver(r) => local_data[r] = Empty

\* Rank 1 is in the length exchange of its third key and holds three keys
\* less than its list has; the root is past its loop with no local array.
C17_Witness ==
    /\ size = 2
    /\ pc[1] = "in_gather"
    /\ ki[1] = 3
    /\ Len(keys[1]) = 5
    /\ Cardinality(DOMAIN local_data[1]) = 3

\* What the inputs alone (the number of ranks, the number of storms and the
\* records of the storms) say about the run: the keys of rank q's storms in
\* sorted order, and the array the root stores for the j-th of its keys, the
\* ranks' arrays of their j-th keys in rank order, a rank's rows unfilled
\* when its array has another row size than the root's.
KeyListOf(q) ==
    Sorted(UNION {DOMAIN infos[u] : u \in {v \in WithData : v % size = q}})

ExpectedSegment(j, q) ==
    LET a == LocalArray(q, KeyListOf(q)[j])
        mine == LocalArray(root, KeyListOf(root)[j])
    IN IF ElemsPerRow(a) = ElemsPerRow(mine) THEN a
       ELSE [x \in DOMAIN a |-> Garbage]

Expected(j) == Concat([x \in 1..size |-> ExpectedSegment(j, x - 1)])

\* C18: the consolidated dataset is a function of the inputs alone.  In
\* every run, whatever the order of the ranks' steps and whenever the calls
\* of the other ranks return, the root leaves the gather loop with the keys
\* of its storms' records and, per key, the array the inputs determine; with
\* one rank that array is the concatenation of the storms' fragments in
\* increasing storm index.
C18_DeterminedByInputs ==
    LoopOver(root) =>
        /\ DOMAIN data = {KeyListOf(root)[j] : j \in DOMAIN KeyListOf(root)}
        /\ \A j \in DOMAIN KeyListOf(root) :
               data[KeyListOf(root)[j]] = Expected(j)
        /\ size = 1 => \A k \in DOMAIN data : data[k] = LocalArray(root, k)

\* The root has left the gather loop with the rows of two storms, one of
\* each of two ranks.
C18_Witness ==
    /\ size = 2
    /\ LoopOver(root)
    /\ WithData = {0, 1}
    /\ "storm" \in DOMAIN data
    /\ {data["storm"][x].u : x \in DOMAIN data["storm"]} = {0, 1}

\* The positions of rank r's segment in the array of the key gathered last:
\* counts[r + 1] rows after the rows of the ranks below r.
SegmentOf(r) ==
    LET before == Sum(SubSeq(counts, 1, r))
    IN (before + 1)..(before + counts[r + 1])

====
